---- MODULE Spec2Model ----
(***************************************************************************)
(* Model of src/Interactive.py: the alternative-route search               *)
(* (calculate_alternative_routes), the ranking and labelling done by       *)
(* create_map_with_alternatives, and the part of main that drives them.    *)
(*                                                                         *)
(* A graph is a record [nodes, length]: nodes is the node set and length   *)
(* maps every directed edge <<u, v>> to its 'length' attribute.  Parallel  *)
(* edges of the road network are represented by the one whose length is    *)
(* least, which is the weight networkx hands to the search for a           *)
(* multigraph.  Graph objects live in a heap so that G.copy() and          *)
(* remove_nodes_from (which mutates its receiver) are told apart from      *)
(* aliasing.                                                               *)
(***************************************************************************)
EXTENDS Integers, Sequences, FiniteSets, TLC

(***************************************************************************)
(* Bounds of the model and constants of the program.                       *)
(***************************************************************************)
NumNodes == 6
LongLength == 6
MaxNumRoutes == 4
MaxRemove == 3

Nodes == 1 .. NumNodes
\* An identifier that names no node of any graph.
NoNode == 0

(***************************************************************************)
(* The road networks the search is run on: a main road 1 - 2 - ... - N of  *)
(* local streets of length 1, and arterial streets joining node 1 and node *)
(* N to two hubs, of length LongLength plus the number of the street's     *)
(* lower end (so that no two routes over the arterials are equally long).  *)
(* Every street is two-way and is either open or closed.                   *)
(***************************************************************************)
Hubs == {3, NumNodes - 2}
LocalStreets == {<<n, n + 1>> : n \in 1 .. (NumNodes - 1)}
ArterialStreets == {<<1, h>> : h \in Hubs} \cup {<<h, NumNodes>> : h \in Hubs}
Streets == LocalStreets \cup ArterialStreets
StreetLength(s) == IF s \in LocalStreets THEN 1 ELSE LongLength + s[1]

GraphOf(open) ==
  [nodes |-> Nodes,
   length |-> [e \in open \cup {<<s[2], s[1]>> : s \in open} |->
                 IF e \in open THEN StreetLength(e)
                 ELSE StreetLength(<<e[2], e[1]>>)]]
Graphs == {GraphOf(open) : open \in SUBSET Streets}

\* (start_node, end_node): the origin is node 1; the destination is any
\* node, or an identifier outside the graph; or the origin is outside it.
Endpoints == {<<1, e>> : e \in {NoNode} \cup Nodes} \cup {<<NoNode, NumNodes>>}

(***************************************************************************)
(* Graph operations (networkx, as used by the program).                    *)
(***************************************************************************)
Min(a, b) == IF a <= b THEN a ELSE b

\* G[u]: the successors of u, in the order the adjacency is iterated.
RECURSIVE SortedSeq(_)
SortedSeq(S) ==
  IF S = {} THEN <<>>
  ELSE LET least == CHOOSE x \in S : \A y \in S : x <= y
       IN <<least>> \o SortedSeq(S \ {least})

Successors(g, u) == SortedSeq({v \in g.nodes : <<u, v>> \in DOMAIN g.length})

\* weight='length': the cost of the edge u -> v.
weight(g, u, v) == g.length[<<u, v>>]

\* remove_nodes_from: the nodes and every edge incident to one of them go;
\* a node that is not in the graph is skipped.
remove_nodes_from(g, ns) ==
  [nodes |-> g.nodes \ ns,
   length |-> [e \in {d \in DOMAIN g.length : d[1] \notin ns /\ d[2] \notin ns} |->
                 g.length[e]]]

\* temp_G = G: a second name for the same object, no copy.
copy_aliased(h, ref) == [heap |-> h, ref |-> ref]

\* G.copy(): a new graph object with the same nodes and edges.  The object
\* "t" holds the working copy; the copy of the iteration before is no
\* longer referenced when the next one is made.
copy(h, ref) == [heap |-> ("t" :> h[ref]) @@ h, ref |-> "t"]

(***************************************************************************)
(* nx.astar_path with the default (zero) heuristic.  The queue holds       *)
(* (priority, counter, node, dist, parent) entries and the least           *)
(* (priority, counter) is popped; parent is <<>> for None and <<p>> for    *)
(* node p.  The result is [exc, path]: exc is "none" when a path is        *)
(* returned, else the exception raised.                                    *)
(***************************************************************************)
\* An estimate that exceeds the remaining cost.
heuristic_inadmissible(u, v) ==
  IF u <= v THEN 2 * LongLength * (v - u) ELSE 2 * LongLength * (u - v)

heuristic(u, v) == 0

\* The parents collected from the target back, without path.reverse().
RECURSIVE ReconstructPath_unreversed(_, _, _)
ReconstructPath_unreversed(explored, node, path) ==
  IF node = <<>> THEN path
  ELSE ReconstructPath_unreversed(explored, explored[node[1]], path \o <<node[1]>>)

RECURSIVE ReconstructPath(_, _, _)
ReconstructPath(explored, node, path) ==
  IF node = <<>> THEN path
  ELSE ReconstructPath(explored, explored[node[1]], <<node[1]>> \o path)

RECURSIVE Relax(_, _, _, _, _, _, _)
Relax(g, target, top, nbrs, queue, enqueued, c) ==
  IF nbrs = <<>> THEN [queue |-> queue, enqueued |-> enqueued, c |-> c]
  ELSE LET neighbor == Head(nbrs)
           ncost == top.dist + weight(g, top.node, neighbor)
       IN IF neighbor \in DOMAIN enqueued /\ enqueued[neighbor] <= ncost
          THEN Relax(g, target, top, Tail(nbrs), queue, enqueued, c)
          ELSE Relax(g, target, top, Tail(nbrs),
                     queue \cup {[prio |-> ncost + heuristic(neighbor, target),
                                  cnt |-> c, node |-> neighbor, dist |-> ncost,
                                  parent |-> <<top.node>>]},
                     (neighbor :> ncost) @@ enqueued, c + 1)

RECURSIVE AStarSearch(_, _, _, _, _, _)
AStarSearch(g, target, queue, explored, enqueued, c) ==
  IF queue = {} THEN [exc |-> "NetworkXNoPath", path |-> <<>>]
  ELSE LET top == CHOOSE q \in queue : \A r \in queue :
                     q.prio < r.prio \/ (q.prio = r.prio /\ q.cnt <= r.cnt)
           rest == queue \ {top}
       IN IF top.node = target
          THEN [exc |-> "none",
                path |-> ReconstructPath(explored, top.parent, <<top.node>>)]
          ELSE IF top.node \in DOMAIN explored
                  /\ (explored[top.node] = <<>> \/ enqueued[top.node] < top.dist)
               THEN AStarSearch(g, target, rest, explored, enqueued, c)
               ELSE LET r == Relax(g, target, top, Successors(g, top.node),
                                   rest, enqueued, c)
                    IN AStarSearch(g, target, r.queue,
                                   (top.node :> top.parent) @@ explored,
                                   r.enqueued, r.c)

\* A search that answers an exhausted queue with an empty path.
astar_path_no_raise(g, source, target) ==
  IF source \notin g.nodes \/ target \notin g.nodes
  THEN [exc |-> "NodeNotFound", path |-> <<>>]
  ELSE LET r == AStarSearch(g, target,
                            {[prio |-> 0, cnt |-> 0, node |-> source, dist |-> 0,
                              parent |-> <<>>]},
                            <<>>, <<>>, 1)
       IN [exc |-> "none", path |-> r.path]

astar_path(g, source, target) ==
  IF source \notin g.nodes \/ target \notin g.nodes
  THEN [exc |-> "NodeNotFound", path |-> <<>>]
  ELSE AStarSearch(g, target,
                   {[prio |-> 0, cnt |-> 0, node |-> source, dist |-> 0,
                     parent |-> <<>>]},
                   <<>>, <<>>, 1)

\* The sum of the edge weights along a node sequence.
RECURSIVE PathWeight(_, _)
PathWeight(g, path) ==
  IF Len(path) < 2 THEN 0
  ELSE weight(g, path[1], path[2]) + PathWeight(g, Tail(path))

\* nx.astar_path_length: the search is run again and its path is summed.
astar_path_length(g, source, target) ==
  LET r == astar_path(g, source, target)
  IN [exc |-> r.exc, length |-> IF r.exc = "none" THEN PathWeight(g, r.path) ELSE 0]

(***************************************************************************)
(* np.random.choice(a, size, replace=False): a ValueError when the size is *)
(* negative or exceeds the population; otherwise any `size` distinct       *)
(* positions of a may be drawn.  samples is the set of possible draws,     *)
(* each a set of positions of a.                                           *)
(***************************************************************************)
choice(a, size) ==
  IF size < 0 \/ size > Len(a)
  THEN [exc |-> "ValueError", samples |-> {}]
  ELSE [exc |-> "none",
        samples |-> {P \in SUBSET (1 .. Len(a)) : Cardinality(P) = size}]

\* prev_route[1:], the slice that keeps the last node.
Interior_to_end(prev_route) == SubSeq(prev_route, 2, Len(prev_route))

\* prev_route[1:-1]
Interior(prev_route) == SubSeq(prev_route, 2, Len(prev_route) - 1)

\* size=min(3, len(prev_route)-2)
SampleSize(prev_route) == Min(MaxRemove, Len(prev_route) - 2)

(***************************************************************************)
(* routes.sort(key=lambda x: x[1]): a stable sort by distance.  A route    *)
(* entry is the pair <<route, distance>>.                                  *)
(***************************************************************************)
RECURSIVE InsertByDistance(_, _)
InsertByDistance(sorted, x) ==
  IF sorted = <<>> THEN <<x>>
  ELSE IF x[2] < Head(sorted)[2] THEN <<x>> \o sorted
  ELSE <<Head(sorted)>> \o InsertByDistance(Tail(sorted), x)

RECURSIVE sort(_)
sort(rs) ==
  IF rs = <<>> THEN <<>>
  ELSE InsertByDistance(sort(SubSeq(rs, 1, Len(rs) - 1)), rs[Len(rs)])

RECURSIVE MinOf(_)
MinOf(ds) == IF Len(ds) = 1 THEN ds[1] ELSE Min(ds[1], MinOf(Tail(ds)))

labels == <<"Shortest Route", "Alternative Route", "Longest Route">>
\* tooltip=labels[min(i, len(labels)-1)], for the 0-based index idx
tooltip(idx) == labels[Min(idx, Len(labels) - 1) + 1]
\* route_type of main's summary, for the 0-based index idx
route_type(idx) ==
  IF idx = 0 THEN "Shortest" ELSE IF idx = 1 THEN "Alternative" ELSE "Longest"

(***************************************************************************)
(* State.                                                                  *)
(*   heap            graph objects: "g" is the caller's G, "t" the copy    *)
(*   temp_G          the object temp_G is bound to, "none" before line 67  *)
(*   start_node, end_node, num_routes   the arguments                      *)
(*   i, j            the next iteration of the outer loop; the position    *)
(*                   in routes of the inner loop's next prev_route         *)
(*   routes          the list built and returned, then sorted in place     *)
(*   nodes_to_remove the last draw of line 70                              *)
(*   pc, exc         the control point; the exception that escaped         *)
(*   m, saved, summary   the map's popup minimum and tooltips; whether it  *)
(*                   was saved; the route types main printed               *)
(* History (not read by the program):                                      *)
(*   G0              the graph as passed in                                *)
(*   searched        for each entry of routes, the graph it was found in   *)
(*   failed          the iterations whose search raised and was skipped    *)
(*   chosen          the nodes drawn so far in the current iteration       *)
(***************************************************************************)
VARIABLES heap, temp_G, start_node, end_node, num_routes, i, j, routes,
          nodes_to_remove, pc, exc, m, saved, summary,
          G0, searched, failed, chosen

vars == <<heap, temp_G, start_node, end_node, num_routes, i, j, routes,
          nodes_to_remove, pc, exc, m, saved, summary,
          G0, searched, failed, chosen>>

args == <<start_node, end_node, num_routes, G0>>
output == <<m, saved, summary>>

NoMap == [shortest |-> 0, tooltips |-> <<>>]

\* main passes no count, so num_routes is 3 there; the function takes any.
Init ==
  \E g \in Graphs, ep \in Endpoints, k \in 0 .. MaxNumRoutes :
    /\ heap = ("g" :> g)
    /\ G0 = g
    /\ temp_G = "none"
    /\ start_node = ep[1]
    /\ end_node = ep[2]
    /\ num_routes = k
    /\ i = 0
    /\ j = 0
    /\ routes = <<>>
    /\ nodes_to_remove = {}
    /\ pc = "for"
    /\ exc = "none"
    /\ m = NoMap
    /\ saved = FALSE
    /\ summary = <<>>
    /\ searched = <<>>
    /\ failed = {}
    /\ chosen = {}

(***************************************************************************)
(* calculate_alternative_routes                                            *)
(***************************************************************************)
\* Lines 63-64 and 74-75, then 76 or the except clause of 77-78: the path
\* and its length in graph object ref; the pair is appended, or the
\* iteration is skipped when the search raised.
Search(ref) ==
  LET route == astar_path(heap[ref], start_node, end_node)
      distance == astar_path_length(heap[ref], start_node, end_node)
  IN IF route.exc = "none" /\ distance.exc = "none"
     THEN /\ routes' = Append(routes, <<route.path, distance.length>>)
          /\ searched' = Append(searched, heap[ref])
          /\ failed' = failed
     ELSE /\ failed' = failed \cup {i}
          /\ UNCHANGED <<routes, searched>>

\* Iteration 0 (lines 59-64, 76-78).
FirstRoute ==
  /\ pc = "for"
  /\ i < num_routes
  /\ i = 0
  /\ Search("g")
  /\ i' = i + 1
  /\ UNCHANGED <<heap, temp_G, j, nodes_to_remove, pc, exc, chosen, args, output>>

\* Iteration i >= 1, line 67.
CopyGraph ==
  /\ pc = "for"
  /\ i < num_routes
  /\ i > 0
  /\ LET c == copy(heap, "g")
     IN /\ heap' = c.heap
        /\ temp_G' = c.ref
  /\ j' = 1
  /\ chosen' = {}
  /\ pc' = "remove"
  /\ UNCHANGED <<i, routes, nodes_to_remove, exc, searched, failed, args, output>>

\* Lines 68-73 for one prev_route.  A ValueError of the draw is not among
\* the exceptions line 77 catches: it leaves the function.
RemoveNodes ==
  /\ pc = "remove"
  /\ j <= Len(routes)
  /\ LET prev_route == routes[j][1]
         a == Interior(prev_route)
         draw == choice(a, SampleSize(prev_route))
     IN IF draw.exc # "none"
        THEN /\ pc' = "raised"
             /\ exc' = draw.exc
             /\ UNCHANGED <<heap, j, nodes_to_remove, chosen>>
        ELSE \E P \in draw.samples :
               /\ nodes_to_remove' = {a[p] : p \in P}
               /\ heap' = [heap EXCEPT ![temp_G] =
                             remove_nodes_from(@, nodes_to_remove')]
               /\ chosen' = chosen \cup nodes_to_remove'
               /\ j' = j + 1
               /\ UNCHANGED <<pc, exc>>
  /\ UNCHANGED <<temp_G, i, routes, searched, failed, args, output>>

\* The search of iteration i >= 1 run on G instead of temp_G.
AlternativeRoute_on_G ==
  /\ pc = "remove"
  /\ j > Len(routes)
  /\ Search("g")
  /\ i' = i + 1
  /\ pc' = "for"
  /\ UNCHANGED <<heap, temp_G, j, nodes_to_remove, exc, chosen, args, output>>

\* Lines 74-78 of iteration i >= 1.
AlternativeRoute ==
  /\ pc = "remove"
  /\ j > Len(routes)
  /\ Search(temp_G)
  /\ i' = i + 1
  /\ pc' = "for"
  /\ UNCHANGED <<heap, temp_G, j, nodes_to_remove, exc, chosen, args, output>>

\* Line 79.
Return ==
  /\ pc = "for"
  /\ i >= num_routes
  /\ pc' = "returned"
  /\ UNCHANGED <<heap, temp_G, i, j, routes, nodes_to_remove, exc, searched,
                 failed, chosen, args, output>>

(***************************************************************************)
(* main, from line 180 on, and create_map_with_alternatives.               *)
(***************************************************************************)
\* A test for a missing list instead of an empty one.
not_routes_is_none(rs) == FALSE

\* Lines 182-184.
not_routes(rs) == rs = <<>>

CheckRoutes ==
  /\ pc = "returned"
  /\ pc' = IF not_routes(routes) THEN "no_route" ELSE "create_map"
  /\ UNCHANGED <<heap, temp_G, i, j, routes, nodes_to_remove, exc, searched,
                 failed, chosen, args, output>>

\* Lines 96-134: min() of an empty list is a ValueError; the list is sorted
\* in place and each route's tooltip is set by its index.  The popup shows
\* the least distance (kept here in metres; the kilometres and minutes
\* shown are that value scaled); the markers, lines and legend are built
\* from these values and the node positions and change nothing else.
create_map_with_alternatives ==
  /\ pc = "create_map"
  /\ IF routes = <<>>
     THEN /\ pc' = "raised"
          /\ exc' = "ValueError"
          /\ UNCHANGED <<routes, m>>
     ELSE /\ routes' = sort(routes)
          /\ m' = [shortest |-> MinOf([x \in 1 .. Len(routes) |-> routes[x][2]]),
                   tooltips |-> [x \in 1 .. Len(routes) |-> tooltip(x - 1)]]
          /\ pc' = "save"
          /\ exc' = exc
  /\ UNCHANGED <<heap, temp_G, i, j, nodes_to_remove, searched, failed, chosen,
                 args, saved, summary>>

\* Line 192.
SaveMap ==
  /\ pc = "save"
  /\ saved' = TRUE
  /\ pc' = "summary"
  /\ UNCHANGED <<heap, temp_G, i, j, routes, nodes_to_remove, exc, searched,
                 failed, chosen, args, m, summary>>

\* Lines 195-204.
RouteSummary ==
  /\ pc = "summary"
  /\ summary' = [x \in 1 .. Len(routes) |-> route_type(x - 1)]
  /\ pc' = "done"
  /\ UNCHANGED <<heap, temp_G, i, j, routes, nodes_to_remove, exc, searched,
                 failed, chosen, args, m, saved>>

Next ==
  \/ FirstRoute
  \/ CopyGraph
  \/ RemoveNodes
  \/ AlternativeRoute
  \/ Return
  \/ CheckRoutes
  \/ create_map_with_alternatives
  \/ SaveMap
  \/ RouteSummary

Spec == Init /\ [][Next]_vars

(***************************************************************************)
(* Notions the properties are stated in, defined on the graph itself and   *)
(* not through the search.                                                 *)
(***************************************************************************)
\* path is a walk of g from s to e.
IsWalk(g, path, s, e) ==
  /\ Len(path) >= 1
  /\ path[1] = s
  /\ path[Len(path)] = e
  /\ \A x \in 1 .. Len(path) : path[x] \in g.nodes
  /\ \A x \in 1 .. (Len(path) - 1) : <<path[x], path[x + 1]>> \in DOMAIN g.length

RECURSIVE WalkLength(_, _)
WalkLength(g, path) ==
  IF Len(path) < 2 THEN 0
  ELSE g.length[<<path[1], path[2]>>] + WalkLength(g, Tail(path))

RECURSIVE ReachableFrom(_, _)
ReachableFrom(g, S) ==
  LET T == S \cup {v \in g.nodes : \E u \in S : <<u, v>> \in DOMAIN g.length}
  IN IF T = S THEN S ELSE ReachableFrom(g, T)

Connected(g, s, e) ==
  s \in g.nodes /\ e \in g.nodes /\ e \in ReachableFrom(g, {s})

\* The walks of g that start at s and have at most n edges.
RECURSIVE WalksFrom(_, _, _)
WalksFrom(g, s, n) ==
  IF n = 0 THEN {<<s>>}
  ELSE LET W == WalksFrom(g, s, n - 1)
       IN W \cup {Append(x[1], x[2][2]) :
                   x \in {y \in W \X DOMAIN g.length : y[1][Len(y[1])] = y[2][1]}}

NodesOf(path) == {path[x] : x \in 1 .. Len(path)}
InteriorNodes(path) == {path[x] : x \in 2 .. (Len(path) - 1)}

\* routes is the list as calculate_alternative_routes built it: line 117
\* has not sorted it yet, and searched is aligned with it.
Unsorted == pc \in {"for", "remove", "returned", "raised", "no_route", "create_map"}

\* C1: for start # end joined by a path of the full graph and k >= 1, the
\* list returned has at least 1 and at most k routes, and every route is a
\* walk from start to end in the graph its iteration searched: the full
\* graph for the first, the depleted copy for the others.
C1_RoutesAreWalks ==
  (pc = "returned" /\ start_node # end_node /\ num_routes >= 1
     /\ Connected(G0, start_node, end_node))
  => /\ Len(routes) >= 1
     /\ Len(routes) <= num_routes
     /\ searched[1] = G0
     /\ \A x \in 1 .. Len(routes) :
          IsWalk(searched[x], routes[x][1], start_node, end_node)

C1_Witness ==
  /\ pc = "returned"
  /\ start_node # end_node
  /\ Connected(G0, start_node, end_node)
  /\ Len(routes) >= 2
  /\ searched[2] # G0
  /\ routes[2][1] # routes[1][1]

\* C2: the route of iteration 0 is a minimum-weight path of the full graph:
\* it is a start-to-end walk of the graph whose recorded length is the sum
\* of its edge lengths; when iteration 0 appends it, that length is at most
\* the length of every start-to-end walk of the graph (the walks of up to
\* NumNodes edges are enumerated); and it is at most the recorded length of
\* every other route of the list.
C2_FirstRouteIsShortest ==
  (Unsorted /\ i >= 1 /\ 0 \notin failed)
  => /\ IsWalk(G0, routes[1][1], start_node, end_node)
     /\ routes[1][2] = WalkLength(G0, routes[1][1])
     /\ (pc = "for" /\ i = 1)
          => \A w \in WalksFrom(G0, start_node, NumNodes) :
               w[Len(w)] = end_node => routes[1][2] <= WalkLength(G0, w)
     /\ \A x \in 1 .. Len(routes) : routes[1][2] <= routes[x][2]

C2_Witness ==
  /\ pc = "returned"
  /\ 0 \notin failed
  /\ Len(routes) >= 2
  /\ routes[1][2] < routes[2][2]
  /\ \E w \in WalksFrom(G0, start_node, NumNodes) :
       /\ w[Len(w)] = end_node
       /\ Len(w) < Len(routes[1][1])
       /\ routes[1][2] < WalkLength(G0, w)

\* C3 as stated: when start and end are disconnected in the full graph the
\* list returned is empty, and the failure of iteration 0 escalates at
\* once: no later iteration is attempted after it.
C3_EscalatesImmediately ==
  /\ (pc = "returned" /\ ~Connected(G0, start_node, end_node)) => routes = <<>>
  /\ (0 \in failed /\ start_node \in G0.nodes /\ end_node \in G0.nodes)
       => (pc # "remove" /\ i <= 1)

\* C3 as amended: when start and end are disconnected in the full graph,
\* all k iterations are attempted, every one fails, and the list returned
\* is empty; when iteration 0 succeeded the list returned is not empty,
\* whichever later iterations failed, so the two outcomes differ.
C3_AllIterationsThenEmpty ==
  /\ (pc = "returned" /\ ~Connected(G0, start_node, end_node))
       => (routes = <<>> /\ i = num_routes /\ failed = 0 .. (num_routes - 1))
  /\ (pc = "returned" /\ num_routes >= 1 /\ 0 \notin failed) => routes # <<>>

C3_Witness ==
  /\ pc = "returned"
  /\ start_node \in G0.nodes
  /\ end_node \in G0.nodes
  /\ ~Connected(G0, start_node, end_node)
  /\ num_routes >= 2
  /\ routes = <<>>
  /\ failed = 0 .. (num_routes - 1)

\* C4: after ranking, the n routes are in non-decreasing order of length,
\* the first is labelled "Shortest", the last is labelled "Longest" if and
\* only if n >= 3, and every other route is labelled "Alternative", both in
\* the map's tooltips and in the summary main prints.
C4_Labels ==
  LET n == Len(routes)
      Ranked(lab, shortest, alternative, longest) ==
        /\ Len(lab) = n
        /\ lab[1] = shortest
        /\ (lab[n] = longest) <=> (n >= 3)
        /\ \A x \in 2 .. (n - 1) : lab[x] = alternative
        /\ (n = 2) => lab[2] = alternative
  IN /\ (pc \in {"save", "summary", "done"})
          => /\ \A x \in 1 .. (n - 1) : routes[x][2] <= routes[x + 1][2]
             /\ Ranked(m.tooltips, "Shortest Route", "Alternative Route",
                       "Longest Route")
     /\ (pc = "done") => Ranked(summary, "Shortest", "Alternative", "Longest")

\* C5 as stated: no two routes of the list returned are the same node
\* sequence.
C5_AllDistinct ==
  (pc = "returned")
  => \A a, b \in 1 .. Len(routes) : a # b => routes[a][1] # routes[b][1]

\* C5 as amended: two routes of the list are the same node sequence only
\* when that sequence has no interior node (it is the direct edge from
\* start to end); a route with an interior node occurs once.
C5_DistinctUnlessDirect ==
  \A a, b \in 1 .. Len(routes) :
    (a # b /\ routes[a][1] = routes[b][1]) => InteriorNodes(routes[a][1]) = {}

C5_Witness ==
  /\ pc = "returned"
  /\ Len(routes) >= 3
  /\ \A a, b \in 1 .. Len(routes) : a # b => routes[a][1] # routes[b][1]
  /\ \A a \in 1 .. Len(routes) : InteriorNodes(routes[a][1]) # {}

\* C6: for every graph, start, end and k >= 0 the function attempts exactly
\* k iterations and returns: no exception reaches the caller, an iteration
\* that fails adds no route, and the routes already appended stay as they
\* are.
C6_AlwaysReturns ==
  /\ pc # "raised"
  /\ (pc = "returned")
       => (i = num_routes /\ Len(routes) + Cardinality(failed) = num_routes)

\* C7: when start = end is a node of the graph, the list returned for any
\* k >= 1 starts with the one-node route of length 0, and the node removal
\* of the later iterations completes for that route.
C7_DegenerateRoute ==
  (start_node = end_node /\ start_node \in G0.nodes)
  => /\ pc # "raised"
     /\ (pc = "returned" /\ num_routes >= 1) => routes[1] = <<<<start_node>>, 0>>

\* C8: when the list returned is empty, main neither ranks, nor creates the
\* map, nor saves it, nor prints the summary: create_map_with_alternatives
\* is reached with a non-empty list only.
C8_NoRenderingOfEmptyList ==
  (routes = <<>>)
  => /\ pc \notin {"create_map", "save", "summary", "done"}
     /\ m = NoMap
     /\ ~saved
     /\ summary = <<>>

C8_Witness ==
  /\ pc = "no_route"
  /\ routes = <<>>
  /\ num_routes >= 1
  /\ Cardinality(failed) = num_routes

\* C9: the caller's graph keeps its nodes and edges, and during iteration
\* i >= 1 the working copy is a separate object that is the full graph less
\* exactly the nodes drawn so far in this iteration: it equals the full
\* graph when the iteration starts, and nothing removed in an earlier
\* iteration is missing from it.
C9_CopyPerIteration ==
  /\ heap["g"] = G0
  /\ (pc = "remove")
       => /\ temp_G # "g"
          /\ heap[temp_G].nodes = G0.nodes \ chosen
          /\ DOMAIN heap[temp_G].length =
               {e \in DOMAIN G0.length : e[1] \notin chosen /\ e[2] \notin chosen}
          /\ \A e \in DOMAIN heap[temp_G].length : heap[temp_G].length[e] = G0.length[e]
          /\ (j = 1) => heap[temp_G] = G0

C9_Witness ==
  /\ pc = "remove"
  /\ i >= 2
  /\ j > Len(routes)
  /\ Len(routes) >= 2
  /\ chosen # {}
  /\ \E n \in G0.nodes : n \notin searched[2].nodes /\ n \in heap[temp_G].nodes

\* C10: in an iteration i >= 1 with start # end, the draw for each earlier
\* route is min(3, number of interior nodes) distinct interior nodes of
\* that route, all of them gone from the working copy afterwards; neither
\* start nor end is drawn, so the working copy contains each endpoint that
\* the full graph contains.
C10_InteriorNodesOnly ==
  (pc = "remove" /\ start_node # end_node)
  => /\ (start_node \in G0.nodes) => start_node \in heap[temp_G].nodes
     /\ (end_node \in G0.nodes) => end_node \in heap[temp_G].nodes
     /\ (j >= 2)
          => LET prev == routes[j - 1][1]
             IN /\ nodes_to_remove \subseteq InteriorNodes(prev)
                /\ Cardinality(nodes_to_remove) =
                     (IF Len(prev) - 2 < 3 THEN Len(prev) - 2 ELSE 3)
                /\ start_node \notin nodes_to_remove
                /\ end_node \notin nodes_to_remove
                /\ nodes_to_remove \cap heap[temp_G].nodes = {}

C10_Witness ==
  /\ pc = "remove"
  /\ start_node # end_node
  /\ j >= 2
  /\ Cardinality(InteriorNodes(routes[j - 1][1])) > 3
  /\ Cardinality(nodes_to_remove) = 3
  /\ heap[temp_G].nodes # G0.nodes

====
